---- MODULE Spec2Model ----
(***************************************************************************)
(* Model of the illustration-gen API (src/illustration-gen/api/app).       *)
(*                                                                         *)
(* Scheduling.  FastAPI runs the synchronous dependencies                  *)
(* (get_illustration_service, get_auth_dependency) on thread-pool threads, *)
(* the async endpoint bodies on the single event loop, and the model call  *)
(* on a worker of the default executor (loop.run_in_executor).  A request  *)
(* therefore advances through the program counters below; the steps of     *)
(* IllustrationService.__init__ are separate steps because they run on     *)
(* threads that interleave, the synchronous part of an endpoint body is    *)
(* one step because the event loop does not switch coroutines before the   *)
(* await.                                                                  *)
(***************************************************************************)
EXTENDS Integers, Sequences, FiniteSets, TLC

\* ---------------------------------------------------------------- bounds
MaxRequests == 3      \* requests issued in one behaviour by clients that wait for the answer
MaxConcurrent == 2    \* requests issued in one behaviour by clients that do not wait
MaxImages == 2        \* images found under one training prefix

Slots == {1, 2}       \* request-handling contexts that can be open at once
LoraIds == {"a", "b"}
UserIds == {"u1"}
Tokens == {"secret", "wrong"}

None == "None"        \* Python's None
\* `not x` for an Optional[str]: None and the empty string are falsy.
Falsy(x) == x \in {None, ""}
NoAttr == "NoAttr"    \* an attribute the Settings class does not declare

\* ------------------------------------------------------------ config.py
\* Settings as declared in config.py: no field s3_lora_prefix exists
\* (lines 48-55 declare the avatar, subject and generated prefixes only).
s3_avatar_prefix == "avatars/"
s3_subject_prefix == "subjects/"
s3_generated_prefix == "generated/"

VARIABLES
  settings,       \* Settings(): auth_enabled, auth_token, s3_lora_prefix
  cuda,           \* torch.cuda.is_available()
  cls_instance,   \* TextToImagePipeline._instance (None or an object id)
  objs,           \* the TextToImagePipeline objects: _initialized, pipeline, loaded_loras
  models,         \* the diffusers pipelines built by start(), in order of construction
  pc,             \* per request context: where the request is
  req,            \* per request context: the request being handled
  loc,            \* per request context: the locals of the handler
  resp,           \* per request context: the HTTP response
  fs,             \* temporary files that exist on the local disk
  lora_cache,     \* lora ids with a file in <tmp>/lora_cache
  nreq,           \* requests issued so far
  lastCall        \* the last pipeline-manager call and what it did

vars == <<settings, cuda, cls_instance, objs, models, pc, req, loc, resp, fs,
          lora_cache, nreq, lastCall>>

Endpoints == {"memory", "subject", "train", "status", "health"}
GenerateEndpoints == {"memory", "subject"}
TrainingEndpoints == {"train", "status"}
\* the endpoints whose first dependency is get_illustration_service
PipelineEndpoints == {"memory", "subject", "health"}

\* --------------------------------------------------- middleware/auth.py
\* verify_token: 0 stands for "returns True", otherwise the HTTPException's
\* status code.  credentials is None when no Authorization header was sent.
verify_token(credentials) ==
  IF ~settings.auth_enabled THEN 0
  ELSE IF settings.auth_token = "" THEN 500
  ELSE IF credentials = None THEN 401
  ELSE IF credentials # settings.auth_token THEN 401
  ELSE 0

\* get_auth_dependency: returns the Depends object (or None); it does not
\* call verify_token.
get_auth_dependency ==
  IF settings.auth_enabled THEN "Depends(verify_token)" ELSE None

\* The endpoints declare `_ = Depends(get_auth_dependency)`: FastAPI calls
\* get_auth_dependency() for the request and binds what it returns to `_`.
\* The outcome is the status the dependency raises, 0 when it raises nothing.
solve_auth_dependency(credentials) ==
  [value |-> get_auth_dependency, raised |-> 0]

\* ------------------------------------------------------ utils/s3_utils.py
Raise == "Raise"

get_avatar_key(user_id) == s3_avatar_prefix \o user_id \o ".png"

get_subject_key(user_id) == s3_subject_prefix \o user_id \o ".png"

get_generated_key(user_id, illustration_type, unique_id) ==
  s3_generated_prefix \o user_id \o "/" \o illustration_type \o "_" \o unique_id \o ".png"

\* settings.s3_lora_prefix raises AttributeError when Settings has no such field.
get_lora_key(lora_id) ==
  IF settings.s3_lora_prefix = NoAttr THEN Raise
  ELSE settings.s3_lora_prefix \o lora_id \o "/lora.safetensors"

\* download_lora: path is the cached file (named by lora_id) or None;
\* fetched tells whether s3_client.download_file was called and succeeded.
\* s3ok is the blob store's answer to that call.
download_lora(lora_id, cache, s3ok) ==
  IF get_lora_key(lora_id) = Raise
    THEN [path |-> None, cache |-> cache, fetched |-> FALSE]
  ELSE IF lora_id \in cache
    THEN [path |-> lora_id, cache |-> cache, fetched |-> FALSE]
  ELSE IF s3ok
    THEN [path |-> lora_id, cache |-> cache \cup {lora_id}, fetched |-> TRUE]
  ELSE [path |-> None, cache |-> cache, fetched |-> FALSE]

\* download_image: the temporary file is created before the download and is
\* not removed when the download fails.
download_image(files, file, s3ok) ==
  [path |-> IF s3ok THEN file ELSE None, fs |-> files \cup {file}]

\* upload_image_from_memory: the staging file is removed in the finally block.
\* Variant: upload_image_from_memory that builds the URI although upload_file
\* raised.
upload_reports_success(files, staging, s3_key, s3ok) ==
  [s3_uri |-> "s3://bucket/" \o s3_key,
   uploaded |-> IF s3ok THEN <<s3_key>> ELSE <<>>,
   fs |-> (files \cup {staging}) \ {staging}]

\* uploaded: the keys s3_client.upload_file has stored.
upload_image_from_memory(files, staging, s3_key, s3ok) ==
  [s3_uri |-> IF s3ok THEN "s3://bucket/" \o s3_key ELSE None,
   uploaded |-> IF s3ok THEN <<s3_key>> ELSE <<>>,
   fs |-> (files \cup {staging}) \ {staging}]

\* ------------------------------------------------------ core/pipeline.py
NoObj == [exists |-> FALSE, initialized |-> FALSE, pipeline |-> 0,
          loaded_loras |-> <<>>]

DefaultAdapterName(lora_id) == "lora_" \o lora_id

AdapterNames == {DefaultAdapterName(l) : l \in LoraIds} \cup {"custom"}

is_lora_loaded(o, lora_id) ==
  \E n \in DOMAIN o.loaded_loras : o.loaded_loras[n] = lora_id

\* `self.loaded_loras[adapter_name] = lora_id`
track(loras, adapter_name, lora_id) ==
  [n \in DOMAIN loras \cup {adapter_name} |->
     IF n = adapter_name THEN lora_id ELSE loras[n]]

\* `self.pipeline.load_lora_weights(lora_path, adapter_name=adapter_name)`
\* followed by the guarded `self.pipeline.set_adapters([adapter_name])`:
\* m is the model object, setok tells whether set_adapters exists and
\* does not raise.
attach_weights(ms, m, adapter_name, setok) ==
  [ms EXCEPT ![m].weights = @ \cup {adapter_name},
             ![m].active = IF setok THEN {adapter_name} ELSE @]

\* What load_lora hands back when it changes nothing.
load_lora_nothing(o, ms, cache, ret, branch) ==
  [ret |-> ret, loaded_loras |-> o.loaded_loras, models |-> ms, cache |-> cache,
   fetched |-> FALSE, loaded |-> FALSE, branch |-> branch]

\* Variant: load_lora without the already-loaded test of lines 107-110.
load_lora_reloads(o, ms, cache, lora_id, adapter_name_arg, env) ==
  LET adapter_name == IF Falsy(adapter_name_arg)
                        THEN DefaultAdapterName(lora_id) ELSE adapter_name_arg
      d == download_lora(lora_id, cache, env.s3ok)
  IN IF o.pipeline = 0 THEN load_lora_nothing(o, ms, cache, FALSE, "no_pipeline")
     ELSE IF d.path = None
       THEN load_lora_nothing(o, ms, cache, FALSE, "download_failed")
     ELSE IF ~env.loadok
       THEN [load_lora_nothing(o, ms, d.cache, FALSE, "load_failed")
               EXCEPT !.fetched = d.fetched]
     ELSE [ret |-> TRUE,
           loaded_loras |-> track(o.loaded_loras, adapter_name, lora_id),
           models |-> attach_weights(ms, o.pipeline, adapter_name, env.setok),
           cache |-> d.cache, fetched |-> d.fetched, loaded |-> TRUE,
           branch |-> "loaded"]

\* Variant: load_lora that records the adapter before it loads the weights.
load_lora_tracks_first(o, ms, cache, lora_id, adapter_name_arg, env) ==
  LET adapter_name == IF Falsy(adapter_name_arg)
                        THEN DefaultAdapterName(lora_id) ELSE adapter_name_arg
      d == download_lora(lora_id, cache, env.s3ok)
  IN IF o.pipeline = 0 THEN load_lora_nothing(o, ms, cache, FALSE, "no_pipeline")
     ELSE IF adapter_name \in DOMAIN o.loaded_loras
       THEN load_lora_nothing(o, ms, cache, TRUE, "already_loaded")
     ELSE IF d.path = None
       THEN load_lora_nothing(o, ms, cache, FALSE, "download_failed")
     ELSE IF ~env.loadok
       THEN [load_lora_nothing(o, ms, d.cache, FALSE, "load_failed")
               EXCEPT !.fetched = d.fetched,
                      !.loaded_loras = track(o.loaded_loras, adapter_name, lora_id)]
     ELSE [ret |-> TRUE,
           loaded_loras |-> track(o.loaded_loras, adapter_name, lora_id),
           models |-> attach_weights(ms, o.pipeline, adapter_name, env.setok),
           cache |-> d.cache, fetched |-> d.fetched, loaded |-> TRUE,
           branch |-> "loaded"]

\* load_lora on pipeline object o with the model objects ms.  env gives the
\* answers of the collaborators: s3ok (blob store), loadok (load_lora_weights
\* does not raise), setok (set_adapters exists and does not raise).  Every
\* exception is caught inside (lines 139-141), so the result is a bool; branch
\* names the return statement that was reached.
load_lora(o, ms, cache, lora_id, adapter_name_arg, env) ==
  LET adapter_name == IF Falsy(adapter_name_arg)
                        THEN DefaultAdapterName(lora_id) ELSE adapter_name_arg
      d == download_lora(lora_id, cache, env.s3ok)
  IN IF o.pipeline = 0 THEN load_lora_nothing(o, ms, cache, FALSE, "no_pipeline")
     ELSE IF adapter_name \in DOMAIN o.loaded_loras
       THEN load_lora_nothing(o, ms, cache, TRUE, "already_loaded")
     ELSE IF d.path = None
       THEN load_lora_nothing(o, ms, cache, FALSE, "download_failed")
     ELSE IF ~env.loadok
       THEN [load_lora_nothing(o, ms, d.cache, FALSE, "load_failed")
               EXCEPT !.fetched = d.fetched]
     ELSE [ret |-> TRUE,
           loaded_loras |-> track(o.loaded_loras, adapter_name, lora_id),
           models |-> attach_weights(ms, o.pipeline, adapter_name, env.setok),
           cache |-> d.cache, fetched |-> d.fetched, loaded |-> TRUE,
           branch |-> "loaded"]

\* unload_lora: only the tracking entry goes, the model keeps the weights.
\* `if adapter_name:` is false for None and for "": clear all tracking.
unload_lora(o, adapter_name) ==
  IF o.pipeline = 0 THEN [ret |-> FALSE, loaded_loras |-> o.loaded_loras]
  ELSE IF ~Falsy(adapter_name)
    THEN IF adapter_name \in DOMAIN o.loaded_loras
           THEN [ret |-> TRUE,
                 loaded_loras |->
                   [n \in DOMAIN o.loaded_loras \ {adapter_name} |-> o.loaded_loras[n]]]
           ELSE [ret |-> FALSE, loaded_loras |-> o.loaded_loras]
  ELSE [ret |-> TRUE, loaded_loras |-> <<>>]

\* The collaborators' answers: all succeed, or the first one asked fails.
Envs ==
  {[s3ok |-> TRUE, loadok |-> TRUE, setok |-> TRUE],
   [s3ok |-> FALSE, loadok |-> TRUE, setok |-> TRUE],
   [s3ok |-> TRUE, loadok |-> FALSE, setok |-> TRUE],
   [s3ok |-> TRUE, loadok |-> TRUE, setok |-> FALSE]}

\* ------------------------------------------------------------ the state
NoReq == [id |-> 0, endpoint |-> None, token |-> None, lora_id |-> None,
          user_id |-> None, ip_adapter_scale |-> None]

NoLoc == [self |-> 0, dep |-> None, adapter_name |-> None, cond |-> None,
          svc |-> FALSE, attach |-> None, active |-> {}, exc |-> None,
          uploads |-> <<>>, call |-> [prefix |-> "", lora_kwargs |-> FALSE],
          ip_scale |-> None, loop_held |-> FALSE]

NoResp == [status |-> 0, s3_uri |-> None, stage |-> None]

\* What a train_lora call did: images, the downloaded files by whether they
\* decode; dataset, the staged files; invoked, _run_training was awaited;
\* overrides and hyper, the hyperparameters given and passed on.
NoOverrides ==
  [learning_rate |-> <<>>, num_train_epochs |-> <<>>, lora_rank |-> <<>>,
   lora_alpha |-> <<>>]

NoTrain == [images |-> <<>>, staged |-> FALSE, dataset |-> <<>>,
            invoked |-> FALSE, overrides |-> NoOverrides, hyper |-> NoOverrides]

NoCall == [op |-> None, lora_id |-> None, adapter_name |-> None, ret |-> FALSE,
           fetched |-> FALSE, loaded |-> FALSE, branch |-> None,
           before |-> <<>>, after |-> <<>>, train |-> NoTrain]

\* Settings.model_s3_path and Settings.model_file as declared.
DefaultModelS3Path == "s3://auto-bio-illustrations/models/checkpoint-1.safetensors"
DefaultModelFile == ""

\* Settings.default_ip_adapter_scale, also the schemas' default for a
\* request that leaves ip_adapter_scale out.  Scales are kept as written.
default_ip_adapter_scale == "0.33"

\* The scale of a pipeline on which set_ip_adapter_scale was never called.
UnsetScale == "unset"

\* A model call made without ip_adapter_image.
NoIpAdapterImage == "no_ip_adapter_image"

SettingsDeclared ==
  [auth_enabled : BOOLEAN, auth_token : {"", "secret"}, s3_lora_prefix : {NoAttr},
   model_s3_path : {DefaultModelS3Path}, model_file : {DefaultModelFile},
   enable_ip_adapter : {FALSE}, enable_lora : {FALSE}]

SettingsWithLoraPrefix ==
  [auth_enabled : {TRUE}, auth_token : {""}, s3_lora_prefix : {NoAttr, "loras/"},
   model_s3_path : {DefaultModelS3Path}, model_file : {DefaultModelFile},
   enable_ip_adapter : {FALSE}, enable_lora : {FALSE}]

\* Settings whose model source is overridden by the environment.
SettingsModelSource ==
  [auth_enabled : {TRUE}, auth_token : {""}, s3_lora_prefix : {NoAttr},
   model_s3_path : {"", DefaultModelS3Path},
   model_file : {DefaultModelFile, "/models/sdxl.safetensors"},
   enable_ip_adapter : BOOLEAN, enable_lora : BOOLEAN]

\* Settings with the IP-Adapter switched off (as declared) or on.
SettingsIpAdapter ==
  [auth_enabled : {TRUE}, auth_token : {""}, s3_lora_prefix : {NoAttr},
   model_s3_path : {DefaultModelS3Path}, model_file : {DefaultModelFile},
   enable_ip_adapter : BOOLEAN, enable_lora : {FALSE}]

InitState ==
  /\ cuda \in BOOLEAN
  /\ cls_instance = 0
  /\ objs = [i \in Slots |-> NoObj]
  /\ models = <<>>
  /\ pc = [s \in Slots |-> "idle"]
  /\ req = [s \in Slots |-> NoReq]
  /\ loc = [s \in Slots |-> NoLoc]
  /\ resp = [s \in Slots |-> NoResp]
  /\ fs = {}
  /\ lora_cache = {}
  /\ nreq = 0
  /\ lastCall = NoCall

\* The service as shipped: Settings() of config.py.
Init == settings \in SettingsDeclared /\ InitState

\* Settings() with no environment override: the declared defaults.
DefaultSettings ==
  [auth_enabled |-> TRUE, auth_token |-> "", s3_lora_prefix |-> NoAttr,
   model_s3_path |-> DefaultModelS3Path, model_file |-> DefaultModelFile,
   enable_ip_adapter |-> FALSE, enable_lora |-> FALSE]

InitDefault == settings = DefaultSettings /\ InitState

\* The same service whose Settings may also carry an s3_lora_prefix field.
InitLora == settings \in SettingsWithLoraPrefix /\ InitState

\* The same service with any combination of configured model sources.
InitStart == settings \in SettingsModelSource /\ InitState

\* The same service with the IP-Adapter off or on.
InitScale == settings \in SettingsIpAdapter /\ InitState

\* ------------------------------------------------- the request arrives
Busy == {s \in Slots : pc[s] # "idle"}

\* The event loop runs one coroutine at a time: no other request's
\* coroutine is between two of its awaits.
LoopFree(s) == \A t \in Slots \ {s} : ~loc[t].loop_held

\* A client sends request r; it is handled in the lowest free context.
\* open: how many requests the clients keep open at once; max: how many
\* they send in all.
Receive(s, r, open, max) ==
  /\ pc[s] = "idle"
  /\ LoopFree(s)
  /\ \A t \in Slots : t < s => pc[t] # "idle"
  /\ Cardinality(Busy) < open
  /\ nreq < max
  /\ req' = [req EXCEPT ![s] = r]
  /\ pc' = [pc EXCEPT ![s] =
              IF r.endpoint \in PipelineEndpoints THEN "new" ELSE "auth_dep"]
  /\ nreq' = nreq + 1
  /\ loc' = [loc EXCEPT ![s] = NoLoc]
  /\ resp' = [resp EXCEPT ![s] = NoResp]
  /\ UNCHANGED <<settings, cuda, cls_instance, objs, models, fs, lora_cache, lastCall>>

\* The generate endpoints depend on get_illustration_service, the training
\* endpoints on get_subject_customization_service (whose constructor only
\* stores the training configuration), each followed by the auth dependency.
GenerateRequests(endpoints, tokens, loras, scales) ==
  [id : {nreq + 1}, endpoint : endpoints, token : tokens,
   lora_id : loras, user_id : UserIds, ip_adapter_scale : scales]

TrainingRequests(tokens) ==
  [id : {nreq + 1}, endpoint : TrainingEndpoints,
   token : tokens, lora_id : {None}, user_id : UserIds,
   ip_adapter_scale : {None}]

\* GET /health/ declares no auth dependency and has no body.
HealthRequests ==
  [id : {nreq + 1}, endpoint : {"health"}, token : {None}, lora_id : {None},
   user_id : {None}, ip_adapter_scale : {None}]

\* What follows get_illustration_service in the endpoint's signature.
AfterService(r) == IF r.endpoint = "health" THEN "handler" ELSE "auth_dep"

\* ---------------- TextToImagePipeline.__new__ / __init__ (thread-pool thread)
\* `if cls._instance is None`
NewCheck(s) ==
  /\ pc[s] = "new"
  /\ pc' = [pc EXCEPT ![s] = IF cls_instance = 0 THEN "new_create" ELSE "new_return"]
  /\ UNCHANGED <<settings, cuda, cls_instance, objs, models, req, loc, resp, fs,
                 lora_cache, nreq, lastCall>>

\* `cls._instance = super().__new__(cls)`: the new object has no instance
\* attributes yet, _initialized is read from the class (False).
NewCreate(s) ==
  /\ pc[s] = "new_create"
  /\ cls_instance' = s
  /\ objs' = [objs EXCEPT ![s] = [NoObj EXCEPT !.exists = TRUE]]
  /\ pc' = [pc EXCEPT ![s] = "new_return"]
  /\ UNCHANGED <<settings, cuda, models, req, loc, resp, fs, lora_cache, nreq, lastCall>>

\* `return cls._instance`, then __init__ tests `if not self._initialized`
NewReturn(s) ==
  /\ pc[s] = "new_return"
  /\ loc' = [loc EXCEPT ![s].self = cls_instance]
  /\ pc' = [pc EXCEPT ![s] =
              IF objs[cls_instance].initialized THEN "svc_check" ELSE "init_body"]
  /\ UNCHANGED <<settings, cuda, cls_instance, objs, models, req, resp, fs,
                 lora_cache, nreq, lastCall>>

\* the body of __init__: pipeline = None, loaded_loras = {}, _initialized = True
InitBody(s) ==
  /\ pc[s] = "init_body"
  /\ objs' = [objs EXCEPT ![loc[s].self] =
                [exists |-> TRUE, initialized |-> TRUE, pipeline |-> 0,
                 loaded_loras |-> <<>>]]
  /\ pc' = [pc EXCEPT ![s] = "svc_check"]
  /\ UNCHANGED <<settings, cuda, cls_instance, models, req, loc, resp, fs,
                 lora_cache, nreq, lastCall>>

\* IllustrationService.__init__: `if not self.pipeline.pipeline`
SvcCheck(s) ==
  /\ pc[s] = "svc_check"
  /\ pc' = [pc EXCEPT ![s] =
              IF objs[loc[s].self].pipeline = 0 THEN "start" ELSE AfterService(req[s])]
  /\ UNCHANGED <<settings, cuda, cls_instance, objs, models, req, loc, resp, fs,
                 lora_cache, nreq, lastCall>>

\* source: what the pipeline was constructed from.
NewModel == [weights |-> {}, active |-> {}, source |-> None,
             ip_adapter |-> FALSE, base_lora |-> FALSE,
             ip_adapter_scale |-> UnsetScale]

\* Variant: start() that looks at model_file before model_s3_path.
model_source_file_first(model_s3_path, model_file) ==
  IF model_file # "" THEN "model_file"
  ELSE IF model_s3_path # "" THEN "model_s3_path"
  ELSE "model_path"

\* The if / elif / else of start(): the setting the model is built from.
model_source(model_s3_path, model_file) ==
  IF model_s3_path # "" THEN "model_s3_path"
  ELSE IF model_file # "" THEN "model_file"
  ELSE "model_path"

Fail(s, status, stage) ==
  /\ resp' = [resp EXCEPT ![s] = [status |-> status, s3_uri |-> None, stage |-> stage]]
  /\ pc' = [pc EXCEPT ![s] = "done"]

\* TextToImagePipeline.start(), called by IllustrationService.__init__.
\* got: download_model_from_s3 returns a path; built: the pipeline could be
\* constructed from the chosen source.
\* ipok, loraok: _load_ip_adapter / _load_lora return; they run, when
\* enabled, after self.pipeline was assigned.
\* An exception of start() leaves the dependency, FastAPI answers 500.
Start(s) ==
  /\ pc[s] = "start"
  /\ \E got \in BOOLEAN, built \in BOOLEAN, ipok \in BOOLEAN, loraok \in BOOLEAN :
       LET source == model_source(settings.model_s3_path, settings.model_file)
           ip == settings.enable_ip_adapter /\ ipok
           lora == settings.enable_lora /\ loraok
           model == [NewModel EXCEPT
                       !.source = source, !.ip_adapter = ip,
                       !.base_lora = (ip = settings.enable_ip_adapter) /\ lora]
       IN
       IF cuda /\ (source = "model_s3_path" => got) /\ built
         THEN /\ models' = Append(models, model)
              /\ objs' = [objs EXCEPT ![loc[s].self].pipeline = Len(models) + 1]
              /\ IF ip = settings.enable_ip_adapter /\ lora = settings.enable_lora
                   THEN /\ pc' = [pc EXCEPT ![s] = AfterService(req[s])]
                        /\ UNCHANGED resp
                   ELSE Fail(s, 500, "startup")
         ELSE /\ Fail(s, 500, "startup")
              /\ UNCHANGED <<models, objs>>
  /\ UNCHANGED <<settings, cuda, cls_instance, req, loc, fs, lora_cache, nreq, lastCall>>

\* `_ = Depends(get_auth_dependency)`
AuthDep(s) ==
  /\ pc[s] = "auth_dep"
  /\ LET r == solve_auth_dependency(req[s].token) IN
       IF r.raised = 0
         THEN /\ loc' = [loc EXCEPT ![s].dep = r.value]
              /\ pc' = [pc EXCEPT ![s] = "handler"]
              /\ UNCHANGED resp
         ELSE /\ Fail(s, r.raised, "auth")
              /\ UNCHANGED loc
  /\ UNCHANGED <<settings, cuda, cls_instance, objs, models, req, fs, lora_cache,
                 nreq, lastCall>>

\* ------------------------------- services/illustration_service.py
CondFile(r) == <<r.id, "cond">>
StagingFile(r) == <<r.id, "staging">>

\* The adapter block when lora_id is falsy: nothing is called.
attach_skipped(o, ms, cache) ==
  [called |-> FALSE, ret |-> FALSE, adapter_name |-> None,
   loaded_loras |-> o.loaded_loras, models |-> ms, cache |-> cache,
   raised |-> None]

\* `if not self.pipeline.is_lora_loaded(lora_id): self.pipeline.load_lora(...)`
attach_named(o, ms, cache, lora_id, env) ==
  IF is_lora_loaded(o, lora_id)
    THEN [attach_skipped(o, ms, cache) EXCEPT
            !.adapter_name = DefaultAdapterName(lora_id)]
  ELSE LET l == load_lora(o, ms, cache, lora_id, DefaultAdapterName(lora_id), env)
       IN [called |-> TRUE, ret |-> l.ret,
           adapter_name |-> DefaultAdapterName(lora_id),
           loaded_loras |-> l.loaded_loras, models |-> l.models,
           cache |-> l.cache,
           raised |-> None]

\* Variant: the adapter block without its `if lora_id:` guard.
attach_unguarded(o, ms, cache, lora_id, env) ==
  attach_named(o, ms, cache, lora_id, env)

\* Variant: the adapter block raising when load_lora returns False.
attach_fatal(o, ms, cache, lora_id, env) ==
  IF Falsy(lora_id) THEN attach_skipped(o, ms, cache)
  ELSE LET a == attach_named(o, ms, cache, lora_id, env)
       IN [a EXCEPT !.raised = IF a.called /\ ~a.ret THEN "adapter" ELSE None]

\* The adapter block at the head of generate_memory_illustration and
\* generate_subject_illustration: a False from load_lora is logged
\* ("continuing without it") and nothing is raised.
attach_for_request(o, ms, cache, lora_id, env) ==
  IF Falsy(lora_id) THEN attach_skipped(o, ms, cache)
  ELSE attach_named(o, ms, cache, lora_id, env)

\* training_config.instance_token
instance_token == "SKS"

\* What memory_/subject_generation_inference and inference() make of the
\* adapter_name they are given: `if adapter_name:` puts the instance token
\* in front of the prompt and adds cross_attention_kwargs.
model_call_args(adapter_name) ==
  [prefix |-> IF Falsy(adapter_name) THEN "" ELSE instance_token,
   lora_kwargs |-> ~Falsy(adapter_name)]

\* Variant: the model call made in the coroutine itself, which keeps the
\* event loop until the call returns.
call_inline == [pc |-> "executor", loop_held |-> TRUE]

\* `await loop.run_in_executor(None, lambda: ...)`: the call is handed to
\* the default executor and the coroutine gives up the event loop until
\* the call is done.
run_in_executor == [pc |-> "executor", loop_held |-> FALSE]

\* generate_*_illustration up to the await: adapter block, download of the
\* conditioning image, (subject only) image verification, submission of the
\* model call to the executor.  got: the blob store has the image; valid:
\* the image decodes.
Generate(s) ==
  /\ pc[s] = "handler"
  /\ LoopFree(s)
  /\ req[s].endpoint \in GenerateEndpoints
  /\ \E env \in Envs, got \in BOOLEAN, valid \in BOOLEAN :
       LET o == objs[loc[s].self]
           a == attach_for_request(o, models, lora_cache, req[s].lora_id, env)
           d == download_image(fs, CondFile(req[s]), got)
       IN /\ objs' = [objs EXCEPT ![loc[s].self].loaded_loras = a.loaded_loras]
          /\ models' = a.models
          /\ lora_cache' = a.cache
          /\ fs' = d.fs
          /\ loc' = [loc EXCEPT ![s].svc = TRUE,
                                ![s].adapter_name = a.adapter_name,
                                ![s].attach =
                                   IF ~a.called THEN None
                                   ELSE IF a.ret THEN "ok" ELSE "failed",
                                ![s].cond = d.path,
                                ![s].call = model_call_args(a.adapter_name),
                                ![s].loop_held =
                                   a.raised = None /\ d.path # None
                                   /\ (req[s].endpoint = "subject" => valid)
                                   /\ run_in_executor.loop_held]
          /\ IF a.raised # None THEN Fail(s, 500, a.raised)
             ELSE IF d.path = None THEN Fail(s, 500, "download")
             ELSE IF req[s].endpoint = "subject" /\ ~valid THEN Fail(s, 500, "validate")
             ELSE /\ pc' = [pc EXCEPT ![s] = run_in_executor.pc]
                  /\ UNCHANGED resp
  /\ UNCHANGED <<settings, cuda, cls_instance, req, nreq, lastCall>>

\* `if ip_adapter_scale is None: ip_adapter_scale = settings.default_...`
effective_scale(ip_adapter_scale) ==
  IF ip_adapter_scale = None THEN default_ip_adapter_scale ELSE ip_adapter_scale

\* inference(): the IP-Adapter branch is taken when enable_ip_adapter and a
\* reference image are given; set_ip_adapter_scale is called only for a
\* scale other than the default.  scale: the pipeline's scale afterwards;
\* used: the scale the call runs with.
inference_scale(current, reference_image_url, ip_adapter_scale) ==
  IF settings.enable_ip_adapter /\ reference_image_url # None
    THEN LET scale == IF ip_adapter_scale # default_ip_adapter_scale
                        THEN ip_adapter_scale ELSE current
         IN [scale |-> scale, used |-> scale]
    ELSE [scale |-> current, used |-> NoIpAdapterImage]

\* The lambda on the executor thread: `self.pipeline.pipeline` is read when
\* it runs, then memory_/subject_generation_inference call the pipeline.
\* ran: the model call returns an image.
Inference(s) ==
  /\ pc[s] = "executor"
  /\ \E ran \in BOOLEAN :
       LET m == objs[loc[s].self].pipeline
           i == IF m = 0 THEN [scale |-> UnsetScale, used |-> NoIpAdapterImage]
                ELSE inference_scale(models[m].ip_adapter_scale, loc[s].cond,
                                     effective_scale(req[s].ip_adapter_scale))
       IN /\ models' = IF m = 0 THEN models
                       ELSE [models EXCEPT ![m].ip_adapter_scale = i.scale]
          /\ loc' = [loc EXCEPT ![s].active = IF m = 0 THEN {} ELSE models[m].active,
                                ![s].exc = IF m # 0 /\ ran THEN None ELSE "inference",
                                ![s].ip_scale = i.used,
                                ![s].loop_held = FALSE]
  /\ pc' = [pc EXCEPT ![s] = "resume"]
  /\ UNCHANGED <<settings, cuda, cls_instance, objs, req, resp, fs,
                 lora_cache, nreq, lastCall>>

HexSuffixes == {"0a1b2c3d"}

\* generate_*_illustration after the await: upload, unlink, return.
Resume(s) ==
  /\ pc[s] = "resume"
  /\ LoopFree(s)
  /\ IF loc[s].exc # None
       THEN /\ Fail(s, 500, "inference")
            /\ UNCHANGED <<fs, loc>>
       ELSE \E stored \in BOOLEAN, unique_id \in HexSuffixes :
              LET key == get_generated_key(req[s].user_id, req[s].endpoint, unique_id)
                  u == upload_image_from_memory(fs, StagingFile(req[s]), key, stored)
              IN /\ fs' = u.fs \ {loc[s].cond}
                 /\ loc' = [loc EXCEPT ![s].uploads = loc[s].uploads \o u.uploaded]
                 /\ IF u.s3_uri = None THEN Fail(s, 500, "upload")
                    ELSE /\ resp' = [resp EXCEPT ![s] =
                                       [status |-> 200, s3_uri |-> u.s3_uri,
                                        stage |-> None]]
                         /\ pc' = [pc EXCEPT ![s] = "done"]
  /\ UNCHANGED <<settings, cuda, cls_instance, objs, models, req, lora_cache,
                 nreq, lastCall>>

\* train_lora / get_training_status endpoints: SubjectCustomizationService
\* defines neither start_training_job nor get_training_status, the call
\* raises AttributeError and the endpoint's `except Exception` answers 500.
Training(s) ==
  /\ pc[s] = "handler"
  /\ LoopFree(s)
  /\ req[s].endpoint \in TrainingEndpoints
  /\ loc' = [loc EXCEPT ![s].svc = TRUE]
  /\ Fail(s, 500, "service")
  /\ UNCHANGED <<settings, cuda, cls_instance, objs, models, req, fs, lora_cache,
                 nreq, lastCall>>

\* ------------------------------------------------ api/endpoints/health.py
is_ready(o) == o.pipeline # 0

\* health_check: 200 with status healthy or unhealthy.
Health(s) ==
  /\ pc[s] = "handler"
  /\ LoopFree(s)
  /\ req[s].endpoint = "health"
  /\ resp' = [resp EXCEPT ![s] =
                [status |-> 200, s3_uri |-> None,
                 stage |-> IF is_ready(objs[loc[s].self]) THEN "healthy"
                           ELSE "unhealthy"]]
  /\ pc' = [pc EXCEPT ![s] = "done"]
  /\ UNCHANGED <<settings, cuda, cls_instance, objs, models, req, loc, fs,
                 lora_cache, nreq, lastCall>>

\* The response is sent and the request context is free again.
Reply(s) ==
  /\ pc[s] = "done"
  /\ pc' = [pc EXCEPT ![s] = "idle"]
  /\ req' = [req EXCEPT ![s] = NoReq]
  /\ loc' = [loc EXCEPT ![s] = NoLoc]
  /\ resp' = [resp EXCEPT ![s] = NoResp]
  /\ UNCHANGED <<settings, cuda, cls_instance, objs, models, fs, lora_cache, nreq,
                 lastCall>>

\* ------------------------------ calls on the pipeline manager itself
\* Code that holds the singleton calls load_lora(lora_id, adapter_name) on
\* the event loop; lastCall keeps what the call did.
CallLoadLora(lora_id, adapter_name) ==
  /\ cls_instance # 0
  /\ objs[cls_instance].initialized
  /\ \E env \in Envs :
       LET o == objs[cls_instance]
           l == load_lora(o, models, lora_cache, lora_id, adapter_name, env)
       IN /\ objs' = [objs EXCEPT ![cls_instance].loaded_loras = l.loaded_loras]
          /\ models' = l.models
          /\ lora_cache' = l.cache
          /\ lastCall' = [op |-> "load_lora", lora_id |-> lora_id,
                          adapter_name |-> adapter_name, ret |-> l.ret,
                          fetched |-> l.fetched, loaded |-> l.loaded,
                          branch |-> l.branch,
                          before |-> o.loaded_loras, after |-> l.loaded_loras]
  /\ UNCHANGED <<settings, cuda, cls_instance, pc, req, loc, resp, fs, nreq>>

\* unload_lora(adapter_name), adapter_name None for "all".
CallUnloadLora(adapter_name) ==
  /\ cls_instance # 0
  /\ objs[cls_instance].initialized
  /\ LET o == objs[cls_instance]
         u == unload_lora(o, adapter_name)
     IN /\ objs' = [objs EXCEPT ![cls_instance].loaded_loras = u.loaded_loras]
        /\ lastCall' = [op |-> "unload_lora", lora_id |-> None,
                        adapter_name |-> adapter_name, ret |-> u.ret,
                        fetched |-> FALSE, loaded |-> FALSE, branch |-> None,
                        before |-> o.loaded_loras, after |-> u.loaded_loras]
  /\ UNCHANGED <<settings, cuda, cls_instance, models, pc, req, loc, resp, fs,
                 lora_cache, nreq>>

\* get_illustration_service on a thread-pool thread.
ServiceStep(s) ==
  \/ NewCheck(s)
  \/ NewCreate(s)
  \/ NewReturn(s)
  \/ InitBody(s)
  \/ SvcCheck(s)
  \/ Start(s)

\* The steps of an open generate request.
GenerateStep(s) ==
  \/ ServiceStep(s)
  \/ AuthDep(s)
  \/ Generate(s)
  \/ Inference(s)
  \/ Resume(s)
  \/ Reply(s)

\* Clients that send one request after the other, on every endpoint, with
\* every kind of token.
ReceiveAny(s) ==
  \E r \in GenerateRequests(GenerateEndpoints, Tokens \cup {None}, LoraIds \cup {None},
                                  {default_ip_adapter_scale})
           \cup TrainingRequests(Tokens \cup {None}) \cup HealthRequests :
    Receive(s, r, 1, MaxRequests)

Next == \E s \in Slots : ReceiveAny(s) \/ GenerateStep(s) \/ Training(s) \/ Health(s)

Spec == Init /\ [][Next]_vars

\* Clients that keep two memory-illustration requests open at once.
ReceiveConcurrent(s) ==
  \E r \in GenerateRequests({"memory"}, {None}, LoraIds \cup {None},
                                  {default_ip_adapter_scale}) :
    Receive(s, r, 2, MaxConcurrent)

NextConcurrent == \E s \in Slots : ReceiveConcurrent(s) \/ GenerateStep(s)

SpecConcurrent == InitDefault /\ [][NextConcurrent]_vars

\* Health checks one after the other start the pipeline; other code calls
\* the pipeline manager.  Settings with or without the s3_lora_prefix field.
ReceiveHealth(s) == \E r \in HealthRequests : Receive(s, r, 1, MaxRequests)

NextLora ==
  \/ \E s \in Slots : ReceiveHealth(s) \/ ServiceStep(s) \/ Health(s) \/ Reply(s)
  \/ \E l \in LoraIds, n \in {None, "custom"} : CallLoadLora(l, n)
  \/ \E n \in AdapterNames \cup {None, ""} : CallUnloadLora(n)

SpecLora == InitLora /\ [][NextLora]_vars

\* Clients that send generate requests one after the other, Settings with
\* or without the s3_lora_prefix field.
ReceiveGenerate(s) ==
  \E r \in GenerateRequests(GenerateEndpoints, {None}, LoraIds \cup {None},
                                  {default_ip_adapter_scale}) :
    Receive(s, r, 1, MaxRequests)

NextAdapters == \E s \in Slots : ReceiveGenerate(s) \/ GenerateStep(s)

SpecAdapters == InitLora /\ [][NextAdapters]_vars

\* ------------------------- services/subject_customization_service.py
TrainingImagesDir(id) == <<id, "training_images">>
TrainingOutputDir(id) == <<id, "output">>

\* download_images_from_s3_path: listed, the prefix holds image keys; got,
\* every download_file succeeds; n, the number of image keys.  The directory
\* is made before the first download; when a download raises, [] is
\* returned and the directory stays.
download_images_from_s3_path(files, dir, listed, got, n) ==
  IF ~listed THEN [image_paths |-> <<>>, fs |-> files]
  ELSE IF ~got THEN [image_paths |-> <<>>, fs |-> files \cup {dir}]
  ELSE [image_paths |-> [i \in 1..n |-> <<dir, i>>], fs |-> files \cup {dir}]

\* os.path.dirname of a downloaded image
dirname(path) == path[1]

\* upload_lora: None when get_lora_key or upload_file raises.
upload_lora(lora_id, s3ok) ==
  IF get_lora_key(lora_id) = Raise \/ ~s3ok THEN None
  ELSE "s3://bucket/" \o get_lora_key(lora_id)

\* cleanup_temp_files over the directories the caller names.
cleanup_temp_files(files, paths) == files \ paths

\* Variant: validate_images that keeps every path.
validate_images_keeps_all(image_paths, decodes) ==
  [raised |-> image_paths = <<>>, valid_images |-> image_paths]

\* validate_images: the paths whose file opens and verifies, in the order
\* given; ValueError when none is left.  decodes[i]: "ok" or "bad".
validate_images(image_paths, decodes) ==
  LET valid_images == SelectSeq(image_paths, LAMBDA p : decodes[p[2]] = "ok")
  IN [raised |-> valid_images = <<>>, valid_images |-> valid_images]

\* prepare_training_dataset: image i of the list is copied to
\* <output_dir>/dataset/{i:04d}<ext>, i from 0.
prepare_training_dataset(image_paths, output_dir) ==
  [i \in 1..Len(image_paths) |->
     [path |-> <<output_dir, "dataset", i - 1>>, image |-> image_paths[i]]]

\* TrainingConfig as declared; learning_rate (1e-4) in units of 1e-6.
training_config ==
  [learning_rate |-> 100, num_train_epochs |-> 100, lora_rank |-> 16,
   lora_alpha |-> 32]

\* `override or default`, override <<>> for None: None and 0 are falsy.
or_default(override, default) ==
  IF override = <<>> \/ override[1] = 0 THEN <<default>> ELSE <<override[1]>>

\* `lr = learning_rate or self.training_config.learning_rate` and the three
\* lines after it.
resolve_hyperparameters(overrides) ==
  [f \in DOMAIN overrides |-> or_default(overrides[f], training_config[f])]

\* The lists of downloaded images, by whether each decodes.
ImageLists == UNION {[1..n -> {"ok", "bad"}] : n \in 1..MaxImages}

\* The collaborators' answers to one train_lora call.
TrainEnvs ==
  [listed : BOOLEAN, got : BOOLEAN, images : ImageLists, trained : BOOLEAN,
   uploaded : BOOLEAN]

\* A run in which one image is found, downloaded and valid.
HyperEnvs ==
  [listed : {TRUE}, got : {TRUE}, images : {<<"ok">>}, trained : BOOLEAN,
   uploaded : BOOLEAN]

\* The overrides a caller may give: none, 0, or another value.
OverrideValues == {0, 5}

Overrides ==
  [learning_rate : {<<>>} \cup {<<v>> : v \in OverrideValues},
   num_train_epochs : {<<>>} \cup {<<v>> : v \in OverrideValues},
   lora_rank : {<<>>} \cup {<<v>> : v \in OverrideValues},
   lora_alpha : {<<>>} \cup {<<v>> : v \in OverrideValues}]

\* train_lora: id stands for the call's uuid.  temp_dirs is what the finally
\* block walks; dirname(image_paths[0]) is the directory of the downloads,
\* the dataset directory lies inside the output directory.
train_lora(files, id, env, overrides) ==
  LET d == download_images_from_s3_path(files, TrainingImagesDir(id),
                                        env.listed, env.got, Len(env.images))
      v == validate_images(d.image_paths, env.images)
      start == [NoTrain EXCEPT
                  !.images = [i \in 1..Len(d.image_paths) |-> env.images[i]],
                  !.overrides = overrides]
      run ==
        IF d.image_paths = <<>>
          THEN [branch |-> "no_images", temp_dirs |-> {}, made |-> {},
                train |-> start]
        ELSE IF v.raised
          THEN [branch |-> "no_valid_image",
                temp_dirs |-> {dirname(d.image_paths[1])},
                made |-> {}, train |-> start]
        ELSE LET both == {dirname(d.image_paths[1]), TrainingOutputDir(id)}
                 called == [start EXCEPT
                              !.staged = TRUE,
                              !.dataset = prepare_training_dataset(
                                            v.valid_images, TrainingOutputDir(id)),
                              !.invoked = TRUE,
                              !.hyper = resolve_hyperparameters(overrides)]
             IN
          IF ~env.trained
            THEN [branch |-> "training_failed", temp_dirs |-> both,
                  made |-> {TrainingOutputDir(id)}, train |-> called]
          ELSE IF upload_lora(ToString(id), env.uploaded) = None
            THEN [branch |-> "upload_failed", temp_dirs |-> both,
                  made |-> {TrainingOutputDir(id)}, train |-> called]
          ELSE [branch |-> "completed", temp_dirs |-> both,
                made |-> {TrainingOutputDir(id)}, train |-> called]
  IN [ret |-> run.branch = "completed", branch |-> run.branch,
      train |-> run.train,
      fs |-> cleanup_temp_files(d.fs \cup run.made, run.temp_dirs)]

\* Code that holds a SubjectCustomizationService awaits train_lora, with
\* collaborators answering as in envs and overrides from given.
AwaitTrainLora(envs, given) ==
  /\ nreq < MaxRequests
  /\ \E env \in envs, overrides \in given :
       LET r == train_lora(fs, nreq + 1, env, overrides)
       IN /\ fs' = r.fs
          /\ lastCall' = [NoCall EXCEPT !.op = "train_lora", !.ret = r.ret,
                                        !.branch = r.branch, !.train = r.train]
  /\ nreq' = nreq + 1
  /\ UNCHANGED <<settings, cuda, cls_instance, objs, models, pc, req, loc, resp,
                 lora_cache>>

\* train_lora called without hyperparameter overrides.
CallTrainLora == AwaitTrainLora(TrainEnvs, {NoOverrides})

\* train_lora called with hyperparameter overrides.
CallTrainLoraWith == AwaitTrainLora(HyperEnvs, Overrides)

\* Training requests one after the other, and direct train_lora calls.
ReceiveTraining(s) ==
  \E r \in TrainingRequests({None}) : Receive(s, r, 1, MaxRequests)

NextTraining ==
  \/ CallTrainLora
  \/ \E s \in Slots : ReceiveTraining(s) \/ AuthDep(s) \/ Training(s) \/ Reply(s)

SpecTraining == InitLora /\ [][NextTraining]_vars

\* train_lora calls one after the other, with every choice of overrides.
NextHyper == CallTrainLoraWith

SpecHyper == InitLora /\ [][NextHyper]_vars

\* Health checks one after the other start the pipeline, under every
\* combination of configured model sources.
NextStart ==
  \E s \in Slots : ReceiveHealth(s) \/ ServiceStep(s) \/ Health(s) \/ Reply(s)

SpecStart == InitStart /\ [][NextStart]_vars

\* Clients that send memory-illustration requests one after the other, with
\* ip_adapter_scale left out, null or given; IP-Adapter off or on.
ReceiveScale(s) ==
  \E r \in GenerateRequests({"memory"}, {None}, {None},
                            {None, default_ip_adapter_scale, "0.8"}) :
    Receive(s, r, 1, MaxRequests)

NextScale == \E s \in Slots : ReceiveScale(s) \/ GenerateStep(s)

SpecScale == InitScale /\ [][NextScale]_vars

\* ======================================================================
\* Properties
\* ======================================================================
Answered(s) == pc[s] = "done"

\* The model call of the request in context s has executed.
Called(s) == pc[s] = "resume"

C2_NoTemporaryFileLeft ==
  \A s \in Slots :
    (Answered(s) /\ req[s].endpoint \in GenerateEndpoints /\ loc[s].svc)
      => (CondFile(req[s]) \notin fs /\ StagingFile(req[s]) \notin fs)

\* C3: a generate call whose conditioning image is missing fails before
\* inference and upload and leaves the set of temporary files as it was.
C3_MissingImageLeavesNoFile ==
  [][\A s \in Slots :
       (pc[s] = "handler" /\ req[s].endpoint \in GenerateEndpoints
          /\ loc'[s].svc /\ loc'[s].cond = None)
         => (pc'[s] = "done" /\ resp'[s].status >= 400 /\ fs' = fs)]_vars

\* C4: with authentication enabled and a secret configured, a request whose
\* token is missing or wrong is answered 401 and its service call is not made.
C4_BadTokenRejected ==
  \A s \in Slots :
    (Answered(s) /\ settings.auth_enabled /\ settings.auth_token # ""
       /\ req[s].token # settings.auth_token)
      => (resp[s].status = 401 /\ ~loc[s].svc)

\* C5: with authentication enabled and no secret configured, every request
\* is answered 500 and its service call is not made.
C5_NoSecretIs500 ==
  \A s \in Slots :
    (Answered(s) /\ settings.auth_enabled /\ settings.auth_token = "")
      => (resp[s].status = 500 /\ ~loc[s].svc)

\* C10: one pipeline object and one model per process: the model is
\* constructed at most once, start() never runs on an object that has a
\* handle, and a handle or registry, once set, is never reset or replaced.
C10_OneModelHandle ==
  /\ Len(models) <= 1
  /\ Cardinality({i \in Slots : objs[i].exists}) <= 1
  /\ \A s \in Slots : pc[s] = "start" => objs[loc[s].self].pipeline = 0

\* C6: a load_lora(X) that follows a successful load_lora(X) returns True,
\* fetches nothing from the blob store, loads no weights and leaves the
\* registry (and the model) as they were.
C6_SecondAttachIsNoOp ==
  [][\A l \in LoraIds, n \in {None, "custom"} :
       (/\ lastCall.op = "load_lora" /\ lastCall.ret
        /\ lastCall.lora_id = l /\ lastCall.adapter_name = n
        /\ CallLoadLora(l, n))
         => (/\ lastCall'.ret
             /\ ~lastCall'.fetched /\ ~lastCall'.loaded
             /\ objs' = objs /\ models' = models)]_vars

\* A repeated load_lora found its adapter tracked.
C6_Witness ==
  /\ lastCall.op = "load_lora"
  /\ lastCall.branch = "already_loaded"
  /\ lastCall.ret
  /\ is_lora_loaded(objs[cls_instance], lastCall.lora_id)
  /\ models[objs[cls_instance].pipeline].weights # {}

\* C7: a generate request without lora_id never calls load_lora and leaves
\* the registry, the model's adapters and the adapter cache unchanged.
C7_NoAdapterNoAttach ==
  [][\A s \in Slots :
       (/\ pc[s] = "handler" /\ pc'[s] # "handler"
        /\ req[s].endpoint \in GenerateEndpoints
        /\ req[s].lora_id = None)
         => (/\ loc'[s].attach = None
             /\ objs' = objs /\ models' = models /\ lora_cache' = lora_cache)]_vars

\* A request without adapter is past the adapter block while another
\* adapter is tracked.
C7_Witness ==
  \E s \in Slots :
    /\ pc[s] = "executor"
    /\ req[s].lora_id = None
    /\ objs[loc[s].self].loaded_loras # <<>>

\* C8: a load_lora that fails at the download or at the weight load returns
\* False and leaves the registry exactly as it was.
C8_AttachFailureIsFalse ==
  (lastCall.op = "load_lora" /\ lastCall.branch \in {"download_failed", "load_failed"})
    => (lastCall.ret = FALSE /\ lastCall.after = lastCall.before)

\* The weight load failed while another adapter was tracked.
C8_Witness ==
  /\ lastCall.op = "load_lora"
  /\ lastCall.branch = "load_failed"
  /\ lastCall.before # <<>>

\* C9: a generate request whose load_lora returned False is not failed for
\* that: it goes on to the download of the conditioning image and, when that
\* is there (and valid), to the model call.
C9_AttachFailureNotFatal ==
  [][\A s \in Slots :
       (/\ pc[s] = "handler"
        /\ req[s].endpoint \in GenerateEndpoints
        /\ loc'[s].attach = "failed")
         => \/ pc'[s] = "executor" /\ loc'[s].cond # None
            \/ pc'[s] = "done" /\ resp'[s].stage = "download" /\ loc'[s].cond = None
            \/ /\ pc'[s] = "done" /\ resp'[s].stage = "validate"
               /\ req[s].endpoint = "subject"]_vars

\* A request whose attach failed was answered with a URI.
C9_Witness ==
  \E s \in Slots :
    /\ Answered(s)
    /\ loc[s].attach = "failed"
    /\ resp[s].status = 200
    /\ resp[s].s3_uri # None

C13_HealthAnsweredWhenStartFails ==
  \A s \in Slots :
    Answered(s) =>
      /\ req[s].endpoint = "health"
           => /\ resp[s].status = 200
              /\ resp[s].stage \in {"healthy", "unhealthy"}
              /\ (resp[s].stage = "unhealthy") <=> ~is_ready(objs[loc[s].self])
      /\ (req[s].endpoint \in GenerateEndpoints /\ ~is_ready(objs[loc[s].self]))
           => resp[s].status >= 400

\* C15: GET /train-lora/{job_id} for a job_id that no start-job call ever
\* returned is answered 404.  No start-job call returns a job_id (every
\* POST /train-lora is answered 500), so every job_id asked for is unknown.
C15_UnknownJobIs404 ==
  \A s \in Slots :
    (Answered(s) /\ req[s].endpoint = "status" /\ loc[s].svc)
      => resp[s].status = 404

\* C16: a generate request answered 200 has made exactly one upload, at
\* generated/{user_id}/{kind}_{8 hex}.png for its own user_id and kind, and
\* carries the URI of that key; a failed one carries no URI, and a request
\* whose upload failed is not answered 200.
C16_OneUploadAtOwnKey ==
  \A s \in Slots :
    (Answered(s) /\ req[s].endpoint \in GenerateEndpoints) =>
      IF resp[s].status = 200
        THEN \E h \in HexSuffixes :
               LET key == "generated/" \o req[s].user_id \o "/" \o req[s].endpoint
                            \o "_" \o h \o ".png"
               IN /\ loc[s].uploads = <<key>>
                  /\ resp[s].s3_uri = "s3://bucket/" \o key
        ELSE resp[s].s3_uri = None

\* A subject request was answered with the URI of its upload.
C16_Witness ==
  \E s \in Slots :
    /\ Answered(s)
    /\ req[s].endpoint = "subject"
    /\ resp[s].status = 200
    /\ Len(loc[s].uploads) = 1
    /\ resp[s].s3_uri = "s3://bucket/generated/u1/subject_0a1b2c3d.png"

\* C17: a generate request that fails because its conditioning image is
\* missing is answered with a 404 or 422 client error, one that fails at the
\* model call or at the upload is answered 500.
C17_StatusTellsStage ==
  \A s \in Slots :
    (Answered(s) /\ req[s].endpoint \in GenerateEndpoints /\ loc[s].svc) =>
      /\ resp[s].stage = "download" => resp[s].status \in {404, 422}
      /\ resp[s].stage \in {"inference", "upload"} => resp[s].status = 500

\* C18: for a request that has used them, the key generators give
\* avatars/{u}.png, subjects/{u}.png, generated/{u}/{t}_{8 hex}.png and
\* loras/{a}/lora.safetensors, and none of the four fails.
C18_KeyLayout ==
  \A s \in Slots :
    (req[s].endpoint \in GenerateEndpoints /\ loc[s].svc) =>
      /\ get_avatar_key(req[s].user_id) = "avatars/" \o req[s].user_id \o ".png"
      /\ get_subject_key(req[s].user_id) = "subjects/" \o req[s].user_id \o ".png"
      /\ \A h \in HexSuffixes :
           get_generated_key(req[s].user_id, req[s].endpoint, h)
             = "generated/" \o req[s].user_id \o "/" \o req[s].endpoint \o "_"
                 \o h \o ".png"
      /\ loc[s].attach # None =>
           /\ get_lora_key(req[s].lora_id) # Raise
           /\ get_lora_key(req[s].lora_id)
                = "loras/" \o req[s].lora_id \o "/lora.safetensors"

\* C19: after train_lora has returned or raised, neither the directory of
\* the downloaded training images nor the output directory of that call
\* exists, whatever path the call took.
C19_TrainingDirsRemoved ==
  [][CallTrainLora
       => (/\ TrainingImagesDir(nreq') \notin fs'
           /\ TrainingOutputDir(nreq') \notin fs')]_vars

\* C20: every model start() constructs comes from one source, the remote
\* checkpoint if model_s3_path is set, else the local file if model_file is
\* set, else the pretrained default; a lower source is never used while a
\* higher one is configured.
C20_SourcePriority ==
  \A i \in 1..Len(models) :
    /\ settings.model_s3_path # "" => models[i].source = "model_s3_path"
    /\ (settings.model_s3_path = "" /\ settings.model_file # "")
         => models[i].source = "model_file"
    /\ (settings.model_s3_path = "" /\ settings.model_file = "")
         => models[i].source = "model_path"

\* A model was built from the remote checkpoint while a local file was
\* configured too.
C20_Witness ==
  /\ settings.model_s3_path # ""
  /\ settings.model_file # ""
  /\ Len(models) = 1
  /\ models[1].source = "model_s3_path"

C22_DetachFrame ==
  [][/\ \A n \in AdapterNames \cup {""} :
          CallUnloadLora(n) =>
            IF n \in DOMAIN lastCall'.before
              THEN /\ lastCall'.ret
                   /\ DOMAIN lastCall'.after = DOMAIN lastCall'.before \ {n}
                   /\ \A k \in DOMAIN lastCall'.after :
                        lastCall'.after[k] = lastCall'.before[k]
              ELSE /\ ~lastCall'.ret
                   /\ lastCall'.after = lastCall'.before
     /\ CallUnloadLora(None) => lastCall'.after = <<>>]_vars

C24_PrefixIffAttached ==
  [][\A s \in Slots :
       (Generate(s) /\ pc'[s] = "executor") =>
         LET attached == /\ ~Falsy(req[s].lora_id)
                         /\ is_lora_loaded(objs'[loc[s].self], req[s].lora_id)
         IN /\ (loc'[s].call.prefix = instance_token) <=> attached
            /\ loc'[s].call.lora_kwargs <=> attached]_vars

\* C25: a model call made for a request with a conditioning image runs with
\* the influence strength that request asked for (the service default when
\* it gave none), whatever earlier requests asked for.
C25_ScaleIsTheRequests ==
  \A s \in Slots :
    (Called(s) /\ loc[s].exc = None /\ loc[s].cond # None)
      => loc[s].ip_scale = effective_scale(req[s].ip_adapter_scale)

\* C30: a start() that raises leaves is_ready() false, so that the next
\* construction of IllustrationService calls start() again.
C30_FailedStartNotReady ==
  [][\A s \in Slots :
       (Start(s) /\ resp'[s].status = 500) => ~is_ready(objs'[loc[s].self])]_vars

\* C26: the model call runs on an executor thread and never in the
\* coroutine: a request whose call is in progress does not hold the event
\* loop, and a request resumes only by the completion of its own call.
C26_ModelCallOffTheLoop ==
  [][\A s \in Slots :
       /\ (pc'[s] = "executor") => ~loc'[s].loop_held
       /\ (pc'[s] = "resume" /\ pc[s] # "resume")
            => (pc[s] = "executor" /\ Inference(s))]_vars

\* Two requests both have their model call in progress: the second was
\* handled up to its submission while the first one's call was running.
C26_Witness ==
  \E s \in Slots, u \in Slots :
    /\ pc[s] = "executor" /\ pc[u] = "executor"
    /\ req[s].id < req[u].id

\* C27: train_lora stages and trains on exactly the downloaded images that
\* decode, in the order they were downloaded; when nothing was downloaded or
\* nothing decodes it fails with no dataset staged and no training invoked.
C27_TrainsOnValidImages ==
  lastCall.op = "train_lora" =>
    LET t == lastCall.train
        expected == SelectSeq([i \in 1..Len(t.images) |-> i],
                              LAMBDA i : t.images[i] = "ok")
    IN /\ expected = <<>> => (~t.staged /\ ~t.invoked /\ ~lastCall.ret)
       /\ t.invoked =>
            /\ Len(t.dataset) = Len(expected)
            /\ \A i \in 1..Len(expected) : t.dataset[i].image[2] = expected[i]

\* A call that downloaded a valid and an invalid image and went on to train.
C27_Witness ==
  /\ lastCall.op = "train_lora"
  /\ lastCall.train.invoked
  /\ Len(lastCall.train.dataset) < Len(lastCall.train.images)

\* C28: the training procedure is invoked with the caller's value for each
\* hyperparameter the caller gave, whatever the value, and with the
\* configured default for each one the caller left out.
C28_OverrideElseDefault ==
  (lastCall.op = "train_lora" /\ lastCall.train.invoked) =>
    \A f \in DOMAIN lastCall.train.overrides :
      lastCall.train.hyper[f] =
        IF lastCall.train.overrides[f] = <<>> THEN <<training_config[f]>>
        ELSE lastCall.train.overrides[f]

====
